---- MODULE Spec2Model ----
(***************************************************************************)
(* A model of the ShadoVi editor (src/src/row.rs, src/src/editor.rs).       *)
(*                                                                         *)
(* Text.  A Rust String is the sequence of its chars, each char a Unicode  *)
(* scalar value (a natural number).  Byte offsets are those of the UTF-8   *)
(* encoding, grapheme clusters those of unicode-segmentation's extended    *)
(* clusters restricted to the chars the model draws from: ASCII without    *)
(* CR, Latin-1 letters and the combining marks U+0300..U+036F.  For these  *)
(* the only rule that joins two chars is GB9 (no break before Extend),     *)
(* which GB4 overrides after a control char.                               *)
(*                                                                         *)
(* Option<T> is the empty sequence (None) or a one-element sequence.       *)
(* All indices are the source's zero-based indices; s[i + 1] reads index i.*)
(***************************************************************************)
EXTENDS Integers, Sequences, FiniteSets, TLC

VARIABLES
    \* Row under test (src/src/row.rs:10-14) and the harness around it
    row,             \* [string, highlighting, len]
    other,           \* the Row returned by the last split
    ret,             \* what the last operation returned, when it was a find
    op,              \* the last Row operation applied, with its arguments
    pre,             \* the Row before the last operation
    panicked,        \* an index was out of bounds (Rust panic)
    \* Editor (src/src/editor.rs:34-42)
    should_quit,
    size,            \* terminal.size(): [width, height]
    cursor_position, \* [x, y]
    offset,          \* [x, y]
    rows,            \* document rows, each a Row
    dirty,           \* document.is_dirty()
    file_name,       \* document.file_name: Option
    status_message,  \* status_message.text, as Message(text, arg)
    quit_thresh,
    prompting        \* Editor::prompt waiting for a key: Some([prompt, result])

rowVars == <<row, other, ret, op, pre, panicked>>
editorVars == <<should_quit, size, cursor_position, offset, rows, dirty,
                file_name, status_message, quit_thresh, prompting>>
vars == <<row, other, ret, op, pre, panicked, should_quit, size,
          cursor_position, offset, rows, dirty, file_name, status_message,
          quit_thresh, prompting>>

----------------------------------------------------------------------------
(* Generic helpers *)

None == <<>>
Some(v) == <<v>>

Min(a, b) == IF a < b THEN a ELSE b
Max(a, b) == IF a > b THEN a ELSE b
SetMin(S) == CHOOSE x \in S : \A y \in S : x <= y
SetMax(S) == CHOOSE x \in S : \A y \in S : x >= y

\* usize::saturating_sub
SatSub(a, b) == IF a > b THEN a - b ELSE 0

\* Iterator::skip(n) and Iterator::take(n) on a sequence
Skip(s, n) == SubSeq(s, n + 1, Len(s))
Take(s, n) == SubSeq(s, 1, Min(n, Len(s)))

\* n copies of v
Repeat(v, n) == [i \in 1..n |-> v]

RECURSIVE Concat(_)
Concat(ss) == IF ss = <<>> THEN <<>> ELSE Head(ss) \o Concat(Tail(ss))

\* All sequences over S of length at most n
SeqsUpTo(S, n) == UNION {[1..k -> S] : k \in 0..n}

----------------------------------------------------------------------------
(* chars, UTF-8 and grapheme clusters *)

Tab == 9
DoubleQuote == 34
SingleQuote == 39
Dot == 46
Slash == 47
Backslash == 92
Newline == 10

\* char::is_ascii_digit
IsAsciiDigit(c) == c \in 48..57
\* char::is_ascii_whitespace: space, tab, LF, FF, CR
IsAsciiWhitespace(c) == c \in {32, 9, 10, 12, 13}
\* char::is_control (general category Cc)
IsControl(c) == c < 32 \/ c \in 127..159
\* Grapheme_Cluster_Break = Extend, for the combining diacritical marks
IsExtend(c) == c \in 768..879

\* char::len_utf8
Utf8Len(c) == IF c < 128 THEN 1 ELSE IF c < 2048 THEN 2 ELSE 3

\* the UTF-8 encoding of one char (chars below U+10000)
Utf8(c) ==
    IF c < 128 THEN <<c>>
    ELSE IF c < 2048 THEN <<192 + (c \div 64), 128 + (c % 64)>>
    ELSE <<224 + (c \div 4096), 128 + ((c \div 64) % 64), 128 + (c % 64)>>

\* str::as_bytes
Bytes(s) == Concat([i \in 1..Len(s) |-> Utf8(s[i])])

\* str::len: the length in bytes
ByteLen(s) == Len(Bytes(s))

\* is there a cluster boundary between s[i] and s[i + 1] (1 <= i < Len(s))
BoundaryAfter(s, i) == ~IsExtend(s[i + 1]) \/ IsControl(s[i])

\* length in chars of the first grapheme cluster of a non-empty s
FirstCluster(s) ==
    SetMin({k \in 1..Len(s) : k = Len(s) \/ BoundaryAfter(s, k)})

\* str::graphemes(true): the sequence of clusters, each a sequence of chars
RECURSIVE Graphemes(_)
Graphemes(s) ==
    IF s = <<>> THEN <<>>
    ELSE LET k == FirstCluster(s)
         IN  <<SubSeq(s, 1, k)>> \o Graphemes(SubSeq(s, k + 1, Len(s)))

\* str::grapheme_indices(true): the byte offset at which each cluster starts
GraphemeIndices(s) ==
    LET G == Graphemes(s)
    IN  [g \in 1..Len(G) |-> ByteLen(Concat(SubSeq(G, 1, g - 1)))]

\* str::find(&str): the byte offset of the first occurrence
StrFind(haystack, needle) ==
    LET h == Bytes(haystack)
        n == Bytes(needle)
        hits == {b \in 0..(Len(h) - Len(n)) : SubSeq(h, b + 1, b + Len(n)) = n}
    IN  IF hits = {} THEN None ELSE Some(SetMin(hits))

\* str::rfind(&str): the byte offset of the last occurrence
StrRFind(haystack, needle) ==
    LET h == Bytes(haystack)
        n == Bytes(needle)
        hits == {b \in 0..(Len(h) - Len(n)) : SubSeq(h, b + 1, b + Len(n)) = n}
    IN  IF hits = {} THEN None ELSE Some(SetMax(hits))

----------------------------------------------------------------------------
(* Row (src/src/row.rs) *)

\* impl From<&str> for Row
RowFrom(slice) ==
    [string |-> slice, highlighting |-> <<>>, len |-> Len(Graphemes(slice))]

\* Row::default()
RowDefault == [string |-> <<>>, highlighting |-> <<>>, len |-> 0]

\* Row::insert(at, c)
insert(r, at, c) ==
    IF at >= r.len
    THEN [r EXCEPT !.string = Append(@, c), !.len = @ + 1]
    ELSE LET G == Graphemes(r.string)
             piece(i) == (IF i = at THEN <<c>> ELSE <<>>) \o G[i + 1]
         IN  [r EXCEPT
                 !.string = Concat([j \in 1..Len(G) |-> piece(j - 1)]),
                 !.len = Len(G) + (IF at < Len(G) THEN 1 ELSE 0)]

\* Row::delete(at)
delete(r, at) ==
    IF at >= r.len THEN r
    ELSE LET G == Graphemes(r.string)
             piece(i) == IF i # at THEN G[i + 1] ELSE <<>>
         IN  [r EXCEPT
                 !.string = Concat([j \in 1..Len(G) |-> piece(j - 1)]),
                 !.len = Cardinality({i \in 0..(Len(G) - 1) : i # at})]

\* Row::append(new)
append(r, new) ==
    [r EXCEPT !.string = @ \o new.string, !.len = @ + new.len]

\* Row::split(at): the receiver afterwards, and the Row returned
split(r, at) ==
    LET G == Graphemes(r.string)
        n == Min(at, Len(G))
    IN  [self |-> [r EXCEPT !.string = Concat(SubSeq(G, 1, n)), !.len = n],
         new |-> [string |-> Concat(SubSeq(G, n + 1, Len(G))),
                  highlighting |-> <<>>,
                  len |-> Len(G) - n]]

\* Row::find(query, at, direction)
find(r, query, at, direction) ==
    IF at > r.len \/ query = <<>> THEN None
    ELSE LET start == IF direction = "Forward" THEN at ELSE 0
             end == IF direction = "Forward" THEN r.len ELSE at
             substring == Concat(Take(Skip(Graphemes(r.string), start), end - start))
             matching_byte_idx ==
                 IF direction = "Forward" THEN StrFind(substring, query)
                 ELSE StrRFind(substring, query)
         IN  IF matching_byte_idx = None THEN None
             ELSE LET GI == GraphemeIndices(substring)
                      hit == {g \in 0..(Len(GI) - 1) : GI[g + 1] = matching_byte_idx[1]}
                  IN  IF hit = {} THEN None ELSE Some(start + SetMin(hit))

\* the loop of Row::highlight_match from search index idx on; indexing the
\* highlighting array past its end panics
RECURSIVE MatchLoop(_, _, _)
MatchLoop(r, word, idx) ==
    LET search_match == find(r, word, idx, "Forward")
    IN  IF search_match = None THEN [row |-> r, panicked |-> FALSE]
        ELSE LET next_idx == search_match[1] + Len(Graphemes(word))
                 hl == [i \in 1..Len(r.highlighting) |->
                           IF i - 1 \in search_match[1]..(next_idx - 1)
                           THEN "Match" ELSE r.highlighting[i]]
                 marked == [r EXCEPT !.highlighting = hl]
             IN  IF next_idx > Len(r.highlighting)
                 THEN [row |-> marked, panicked |-> TRUE]
                 ELSE MatchLoop(marked, word, next_idx)

\* Row::highlight_match(word), word an Option<&str>
highlight_match(r, word) ==
    IF word = None THEN [row |-> r, panicked |-> FALSE]
    ELSE IF word[1] = <<>> THEN [row |-> r, panicked |-> FALSE]
    ELSE MatchLoop(r, word[1], 0)

\* <[highlighting::Type]>::get(i).unwrap_or(&Type::None)
TypeAt(hl, i) == IF i < Len(hl) THEN hl[i + 1] ELSE "None"

\* format!("{}", color::Fg(..)): the escape sequence that sets the colour of
\* type, resp. resets it, as one piece of the output
Fg(type) == [fg |-> type]

\* the loop of Row::render over the graphemes G from index i up to stop:
\* current is current_highlighting, result the String built so far
RECURSIVE RenderLoop(_, _, _, _, _, _)
RenderLoop(G, hl, i, stop, current, result) ==
    IF i >= stop \/ i >= Len(G) THEN result
    ELSE LET c == G[i + 1][1]
             highlighting_type == TypeAt(hl, i)
             marked == IF highlighting_type # current
                       THEN Append(result, Fg(highlighting_type)) ELSE result
         IN  RenderLoop(G, hl, i + 1, stop, highlighting_type,
                        marked \o (IF c = Tab THEN <<32, 32>> ELSE <<c>>))

\* Row::render(start, end): the String returned, chars and escape sequences
render(r, start, end) ==
    LET end1 == Min(end, ByteLen(r.string))
        start1 == Min(start, end1)
    IN  Append(RenderLoop(Graphemes(r.string), r.highlighting, start1, end1,
                          "None", <<>>),
               Fg("Reset"))

----------------------------------------------------------------------------
(* Row::highlight and its recognizers.  chars is the Vec<char> of the line, *)
(* idx the scan cursor, hl the highlighting array built so far.  Each       *)
(* recognizer yields [hit, hl, idx]; a miss leaves hl and idx as they were. *)

\* <[char]>::get(i)
Get(chars, i) == IF i < Len(chars) THEN Some(chars[i + 1]) ELSE None

Miss(hl, idx) == [hit |-> FALSE, hl |-> hl, idx |-> idx]
Hit(hl, idx) == [hit |-> TRUE, hl |-> hl, idx |-> idx]

\* Row::highlight_char
highlight_char(hl, idx, opts, c, chars) ==
    IF opts.characters /\ c = SingleQuote /\ Get(chars, idx + 1) # None
    THEN LET next_char == Get(chars, idx + 1)[1]
             closing_idx == IF next_char = Backslash THEN idx + 3 ELSE idx + 2
         IN  IF Get(chars, closing_idx) = Some(SingleQuote)
             THEN Hit(hl \o Repeat("Character", SatSub(closing_idx, idx)),
                      idx + SatSub(closing_idx, idx))
             ELSE Miss(hl, idx)
    ELSE Miss(hl, idx)

\* Row::highlight_comment
highlight_comment(hl, idx, opts, c, chars) ==
    IF opts.comments /\ c = Slash /\ idx < Len(chars)
       /\ Get(chars, idx + 1) = Some(Slash)
    THEN Hit(hl \o Repeat("Comment", Len(chars) - idx), Len(chars))
    ELSE Miss(hl, idx)

\* highlight_str pushing the entries without advancing idx
highlight_str_stuck(hl, idx, substring, chars, hl_type) ==
    IF substring = <<>> THEN Miss(hl, idx)
    ELSE IF \A k \in 0..(Len(substring) - 1) :
                Get(chars, idx + k) = Some(substring[k + 1])
         THEN Hit(hl \o Repeat(hl_type, ByteLen(substring)), idx)
         ELSE Miss(hl, idx)

\* Row::highlight_str: the comparison runs over the chars of substring, the
\* push loop over substring.len(), its length in bytes
highlight_str(hl, idx, substring, chars, hl_type) ==
    IF substring = <<>> THEN Miss(hl, idx)
    ELSE IF \A k \in 0..(Len(substring) - 1) :
                Get(chars, idx + k) = Some(substring[k + 1])
         THEN Hit(hl \o Repeat(hl_type, ByteLen(substring)),
                  idx + ByteLen(substring))
         ELSE Miss(hl, idx)

\* the loop of Row::highlight_string (row.rs:211-217), entered with the
\* cursor on a char of the string
RECURSIVE StringLoop(_, _, _)
StringLoop(hl, idx, chars) ==
    LET hl1 == Append(hl, "String")
        idx1 == idx + 1
    IN  IF Get(chars, idx1) = None \/ Get(chars, idx1) = Some(DoubleQuote)
        THEN [hl |-> hl1, idx |-> idx1]
        ELSE StringLoop(hl1, idx1, chars)

\* Row::highlight_string
highlight_string(hl, idx, opts, c, chars) ==
    IF opts.strings /\ c = DoubleQuote
    THEN LET l == StringLoop(hl, idx, chars)
         IN  Hit(Append(l.hl, "String"), l.idx + 1)
    ELSE Miss(hl, idx)

\* the loop of Row::highlight_number (row.rs:234-240)
RECURSIVE NumberLoop(_, _, _)
NumberLoop(hl, idx, chars) ==
    LET hl1 == Append(hl, "Number")
        idx1 == idx + 1
        next_char == Get(chars, idx1)
    IN  IF next_char = None THEN [hl |-> hl1, idx |-> idx1]
        ELSE IF next_char[1] # Dot /\ ~IsAsciiDigit(next_char[1])
        THEN [hl |-> hl1, idx |-> idx1]
        ELSE NumberLoop(hl1, idx1, chars)

\* Row::highlight_number
highlight_number(hl, idx, opts, c, chars) ==
    IF opts.numbers /\ IsAsciiDigit(c)
    THEN IF idx > 0 /\ ~IsAsciiDigit(chars[idx]) /\ ~IsAsciiWhitespace(chars[idx])
         THEN Miss(hl, idx)
         ELSE LET l == NumberLoop(hl, idx, chars) IN Hit(l.hl, l.idx)
    ELSE Miss(hl, idx)

\* Row::highlight_keywords_primary: the first keyword of the list that matches
RECURSIVE KeywordsFrom(_, _, _, _)
KeywordsFrom(hl, idx, words, chars) ==
    IF words = <<>> THEN Miss(hl, idx)
    ELSE LET r == highlight_str(hl, idx, Head(words), chars, "KeywordPrimary")
         IN  IF r.hit THEN r ELSE KeywordsFrom(hl, idx, Tail(words), chars)

highlight_keywords_primary(hl, idx, opts, chars) ==
    KeywordsFrom(hl, idx, opts.keywords_primary, chars)

\* one iteration of the scan loop of Row::highlight (row.rs:260-269) at a
\* cursor idx < chars.len(): the recognizers in order, else one None
ScanStep(hl, idx, opts, chars) ==
    LET c == chars[idx + 1]
        r1 == highlight_char(hl, idx, opts, c, chars)
        r2 == highlight_comment(hl, idx, opts, c, chars)
        r3 == highlight_string(hl, idx, opts, c, chars)
        r4 == highlight_number(hl, idx, opts, c, chars)
        r5 == highlight_keywords_primary(hl, idx, opts, chars)
    IN  IF r1.hit THEN r1
        ELSE IF r2.hit THEN r2
        ELSE IF r3.hit THEN r3
        ELSE IF r4.hit THEN r4
        ELSE IF r5.hit THEN r5
        ELSE Hit(Append(hl, "None"), idx + 1)

\* the scan loop of Row::highlight: the highlighting array it builds
RECURSIVE Scan(_, _, _, _)
Scan(hl, idx, opts, chars) ==
    IF Get(chars, idx) = None THEN hl
    ELSE LET s == ScanStep(hl, idx, opts, chars)
         IN  Scan(s.hl, s.idx, opts, chars)

\* Row::highlight(opts, word)
highlight(r, opts, word) ==
    highlight_match([r EXCEPT !.highlighting = Scan(<<>>, 0, opts, r.string)],
                    word)

----------------------------------------------------------------------------
(* The editor's state while only a Row is exercised, and the Row harness's *)
(* state while the editor runs.                                            *)

NoOp == [name |-> "from", at |-> 0, end |-> 0, c |-> 0, s |-> None,
         direction |-> "Forward", opts |-> None]

Position(x, y) == [x |-> x, y |-> y]

\* StatusMessage::from(format!(text, arg)): the text and the chars formatted
\* into it
Message(text, arg) == [text |-> text, arg |-> arg]

\* initial_status of Editor::default()
HelpText == "Help: C-s to save | C-q to quit | C-f to search"

\* const QUIT_THRESH (editor.rs:12)
QUIT_THRESH == 2

\* Editor::default() with Document::default() (editor.rs:53-74)
EditorDefault ==
    /\ should_quit = FALSE
    /\ size = [width |-> 1, height |-> 1]
    /\ cursor_position = Position(0, 0)
    /\ offset = Position(0, 0)
    /\ rows = <<>>
    /\ dirty = FALSE
    /\ file_name = None
    /\ status_message = Message(HelpText, <<>>)
    /\ quit_thresh = QUIT_THRESH
    /\ prompting = None

RowIdle ==
    /\ row = RowDefault
    /\ other = RowDefault
    /\ ret = None
    /\ op = NoOp
    /\ pre = RowDefault
    /\ panicked = FALSE

----------------------------------------------------------------------------
(* Row operations applied to a Row built by Row::from                      *)

\* the longest text, in chars, a Row grows to
MaxRowChars == 3
\* the longest text, in chars, a Row is built from
MaxFromChars == 3
\* the longest search query, in chars
MaxQueryChars == 2

\* tab, 'a' and the combining acute accent U+0301
RowChars == {Tab, 97, 769}

InitRow ==
    /\ row \in {RowFrom(s) : s \in SeqsUpTo(RowChars, MaxFromChars)}
    /\ other = RowDefault
    /\ ret = None
    /\ op = NoOp
    /\ pre = row
    /\ panicked = FALSE
    /\ EditorDefault

Insert(at, c) ==
    /\ Len(row.string) < MaxRowChars
    /\ row' = insert(row, at, c)
    /\ pre' = row
    /\ op' = [NoOp EXCEPT !.name = "insert", !.at = at, !.c = c]
    /\ ret' = None
    /\ UNCHANGED <<other, panicked>>
    /\ UNCHANGED editorVars

Delete(at) ==
    /\ row' = delete(row, at)
    /\ pre' = row
    /\ op' = [NoOp EXCEPT !.name = "delete", !.at = at]
    /\ ret' = None
    /\ UNCHANGED <<other, panicked>>
    /\ UNCHANGED editorVars

Split(at) ==
    /\ row' = split(row, at).self
    /\ other' = split(row, at).new
    /\ pre' = row
    /\ op' = [NoOp EXCEPT !.name = "split", !.at = at]
    /\ ret' = None
    /\ UNCHANGED panicked
    /\ UNCHANGED editorVars

\* row.append(&other), other the Row the last split returned
AppendOther ==
    /\ Len(row.string) + Len(other.string) <= MaxRowChars
    /\ row' = append(row, other)
    /\ pre' = row
    /\ op' = [NoOp EXCEPT !.name = "append"]
    /\ ret' = None
    /\ UNCHANGED <<other, panicked>>
    /\ UNCHANGED editorVars

\* find leaves the Row as it is: it is applied to a Row once
Find(query, at, direction) ==
    /\ op.name # "find"
    /\ ret' = find(row, query, at, direction)
    /\ pre' = row
    /\ op' = [NoOp EXCEPT !.name = "find", !.s = Some(query), !.at = at,
                          !.direction = direction]
    /\ UNCHANGED <<row, other, panicked>>
    /\ UNCHANGED editorVars

NextRow ==
    \/ \E at \in 0..(MaxRowChars + 1), c \in RowChars : Insert(at, c)
    \/ \E at \in 0..(MaxRowChars + 1) : Delete(at)
    \/ \E at \in 0..(MaxRowChars + 1) : Split(at)
    \/ AppendOther

SpecRow == InitRow /\ [][NextRow]_vars

NextFind ==
    \/ \E at \in 0..(MaxRowChars + 1), c \in RowChars : Insert(at, c)
    \/ \E query \in SeqsUpTo(RowChars, MaxQueryChars),
          at \in 0..(MaxRowChars + 1),
          direction \in {"Forward", "Backward"} : Find(query, at, direction)

SpecFind == InitRow /\ [][NextFind]_vars

----------------------------------------------------------------------------
(* Row::highlight and Row::highlight_match applied to a Row built by       *)
(* Row::from                                                               *)

\* the longest line, in chars, that is highlighted
MaxHlChars == 4

\* tab, '"', '\'', '/', '1', 'a' and the combining acute accent U+0301
HlChars == {Tab, 34, 39, 47, 49, 97, 769}

\* HighlightingOptions: no token class, each class alone, all classes; the
\* primary keyword is "a1"
HlFlags(ch, co, st, nu, kw) ==
    [characters |-> ch, comments |-> co, strings |-> st, numbers |-> nu,
     keywords_primary |-> kw]

HlOptions ==
    {HlFlags(FALSE, FALSE, FALSE, FALSE, <<>>),
     HlFlags(TRUE, FALSE, FALSE, FALSE, <<>>),
     HlFlags(FALSE, TRUE, FALSE, FALSE, <<>>),
     HlFlags(FALSE, FALSE, TRUE, FALSE, <<>>),
     HlFlags(FALSE, FALSE, FALSE, TRUE, <<>>),
     HlFlags(FALSE, FALSE, FALSE, FALSE, << <<97, 49>> >>),
     HlFlags(TRUE, TRUE, TRUE, TRUE, << <<97, 49>> >>)}

\* the search words: none, empty, "a", "11" and the combining acute accent
HlWords == {None, Some(<<>>), Some(<<97>>), Some(<<49, 49>>), Some(<<769>>)}

InitHl ==
    /\ row \in {RowFrom(s) : s \in SeqsUpTo(HlChars, MaxHlChars)}
    /\ other = RowDefault
    /\ ret = None
    /\ op = NoOp
    /\ pre = row
    /\ panicked = FALSE
    /\ EditorDefault

\* highlight rebuilds the array from the text alone: it is applied to the
\* Row as built
Highlight(opts, word) ==
    /\ op.name = "from"
    /\ row' = highlight(row, opts, word).row
    /\ panicked' = highlight(row, opts, word).panicked
    /\ pre' = row
    /\ op' = [NoOp EXCEPT !.name = "highlight", !.opts = Some(opts), !.s = word]
    /\ ret' = None
    /\ UNCHANGED other
    /\ UNCHANGED editorVars

\* highlight_match is applied to the Row as built and after a highlight
HighlightMatch(word) ==
    /\ op.name \in {"from", "highlight"}
    /\ ~panicked
    /\ row' = highlight_match(row, word).row
    /\ panicked' = highlight_match(row, word).panicked
    /\ pre' = row
    /\ op' = [NoOp EXCEPT !.name = "highlight_match", !.s = word]
    /\ ret' = None
    /\ UNCHANGED other
    /\ UNCHANGED editorVars

NextHl ==
    \/ \E opts \in HlOptions, word \in HlWords : Highlight(opts, word)
    \/ \E word \in HlWords : HighlightMatch(word)

SpecHl == InitHl /\ [][NextHl]_vars

----------------------------------------------------------------------------
(* Row::highlight run one loop iteration at a time on a Row built by       *)
(* Row::from: op.name tells the loop it is in, op.at is the cursor idx     *)

\* the longest line, in chars, that is scanned
MaxScanChars == 3

\* the search words: none, empty, "a" and the combining acute accent
ScanWords == {None, Some(<<>>), Some(<<97>>), Some(<<769>>)}

InitScan ==
    /\ row \in {RowFrom(s) : s \in SeqsUpTo(HlChars, MaxScanChars)}
    /\ other = RowDefault
    /\ ret = None
    /\ op = NoOp
    /\ pre = row
    /\ panicked = FALSE
    /\ EditorDefault

\* Row::highlight up to its scan loop (row.rs:256-258)
HighlightBegin(opts, word) ==
    /\ op.name = "from"
    /\ row' = [row EXCEPT !.highlighting = <<>>]
    /\ pre' = row
    /\ op' = [NoOp EXCEPT !.name = "scan", !.at = 0, !.opts = Some(opts),
                          !.s = word]
    /\ UNCHANGED <<other, ret, panicked>>
    /\ UNCHANGED editorVars

\* one iteration of the scan loop (row.rs:260-269)
ScanIteration ==
    /\ op.name = "scan"
    /\ Get(row.string, op.at) # None
    /\ LET st == ScanStep(row.highlighting, op.at, op.opts[1], row.string)
       IN  /\ row' = [row EXCEPT !.highlighting = st.hl]
           /\ op' = [op EXCEPT !.at = st.idx]
    /\ UNCHANGED <<other, ret, pre, panicked>>
    /\ UNCHANGED editorVars

\* the scan loop ends and highlight_match starts (row.rs:145-147); it returns
\* at once without a word or with an empty one
ScanEnd ==
    /\ op.name = "scan"
    /\ Get(row.string, op.at) = None
    /\ op' = IF op.s = None \/ op.s = Some(<<>>)
             THEN [op EXCEPT !.name = "highlight", !.at = 0]
             ELSE [op EXCEPT !.name = "match", !.at = 0]
    /\ UNCHANGED <<row, other, ret, pre, panicked>>
    /\ UNCHANGED editorVars

\* one iteration of the loop of highlight_match (row.rs:148-155), or its end
MatchIteration ==
    /\ op.name = "match"
    /\ LET search_match == find(row, op.s[1], op.at, "Forward")
           next_idx == search_match[1] + Len(Graphemes(op.s[1]))
           hl == [i \in 1..Len(row.highlighting) |->
                     IF i - 1 \in search_match[1]..(next_idx - 1)
                     THEN "Match" ELSE row.highlighting[i]]
       IN  IF search_match = None
           THEN /\ op' = [op EXCEPT !.name = "highlight", !.at = 0]
                /\ UNCHANGED <<row, panicked>>
           ELSE /\ row' = [row EXCEPT !.highlighting = hl]
                /\ panicked' = (next_idx > Len(row.highlighting))
                /\ op' = IF next_idx > Len(row.highlighting)
                         THEN [op EXCEPT !.name = "highlight", !.at = 0]
                         ELSE [op EXCEPT !.at = next_idx]
    /\ UNCHANGED <<other, ret, pre>>
    /\ UNCHANGED editorVars

NextScan ==
    \/ \E opts \in HlOptions, word \in ScanWords : HighlightBegin(opts, word)
    \/ ScanIteration
    \/ ScanEnd
    \/ MatchIteration

SpecScan == InitScan /\ [][NextScan]_vars

----------------------------------------------------------------------------
(* Row::render applied to a Row built by Row::from, as built and after     *)
(* Row::highlight                                                          *)

\* the longest line, in chars, that is rendered, and the largest start and end
MaxRenderChars == 3
MaxRenderEnd == 4

\* tab, '1', 'a' and the combining acute accent U+0301
RenderChars == {Tab, 49, 97, 769}

\* the search words: none and "a"
RenderWords == {None, Some(<<97>>)}

InitRender ==
    /\ row \in {RowFrom(s) : s \in SeqsUpTo(RenderChars, MaxRenderChars)}
    /\ other = RowDefault
    /\ ret = None
    /\ op = NoOp
    /\ pre = row
    /\ panicked = FALSE
    /\ EditorDefault

\* render leaves the Row as it is: it is applied to a Row once
Render(start, end) ==
    /\ op.name \in {"from", "highlight"}
    /\ ~panicked
    /\ ret' = Some(render(row, start, end))
    /\ pre' = row
    /\ op' = [NoOp EXCEPT !.name = "render", !.at = start, !.end = end]
    /\ UNCHANGED <<row, other, panicked>>
    /\ UNCHANGED editorVars

NextRender ==
    \/ \E opts \in HlOptions, word \in RenderWords : Highlight(opts, word)
    \/ \E start \in 0..MaxRenderEnd, end \in 0..MaxRenderEnd : Render(start, end)

SpecRender == InitRender /\ [][NextRender]_vars

----------------------------------------------------------------------------
(* Properties of Row                                                       *)

\* the char offset at which grapheme g of s starts; the end of s when g is
\* not below the number of graphemes
CharOffset(s, g) == Len(Concat(Take(Graphemes(s), g)))

\* query occurs in s starting at the grapheme with index r and ends no later
\* than the start of grapheme hi
OccursAt(s, query, r, hi) ==
    /\ r < Len(Graphemes(s))
    /\ CharOffset(s, r) + Len(query) <= CharOffset(s, hi)
    /\ SubSeq(s, CharOffset(s, r) + 1, CharOffset(s, r) + Len(query)) = query

\* the graphemes of query are the graphemes r, r + 1, ... of s, all of them
\* below hi
WholeOccursAt(s, query, r, hi) ==
    LET Q == Graphemes(query)
        G == Graphemes(s)
    IN  /\ r + Len(Q) <= hi
        /\ r + Len(Q) <= Len(G)
        /\ SubSeq(G, r + 1, r + Len(Q)) = Q

\* what the contract of find asks for, Occ(s, query, r, hi) telling whether
\* query occurs at grapheme r within the window that ends at hi
FindContract(r, query, at, direction, Occ(_, _, _, _)) ==
    IF query = <<>> \/ at > r.len THEN None
    ELSE LET occ == IF direction = "Forward"
                    THEN {i \in at..Len(r.string) : Occ(r.string, query, i, r.len)}
                    ELSE {i \in 0..(at - 1) : Occ(r.string, query, i, at)}
         IN  IF occ = {} THEN None
             ELSE IF direction = "Forward" THEN Some(SetMin(occ))
             ELSE Some(SetMax(occ))

\* C1: find(query, at, direction) returns the smallest grapheme index >= at
\* (Forward) resp. the largest grapheme index < at (Backward) at which query
\* occurs inside the search window, and None when there is no such index,
\* when query is empty or when at > len.  An occurrence is read either way:
\* the chars of query starting at a grapheme boundary, or the graphemes of
\* query as whole graphemes of the line.
C1_FindContract ==
    op.name = "find" =>
        \/ ret = FindContract(row, op.s[1], op.at, op.direction, OccursAt)
        \/ ret = FindContract(row, op.s[1], op.at, op.direction, WholeOccursAt)

\* the starts of the non-overlapping occurrences met scanning left to right,
\* each search resuming wlen graphemes after the previous start
RECURSIVE ScanStarts(_, _, _)
ScanStarts(occ, from, wlen) ==
    LET rest == {m \in occ : m >= from}
    IN  IF rest = {} THEN {}
        ELSE {SetMin(rest)} \cup ScanStarts(occ, SetMin(rest) + wlen, wlen)

\* the grapheme positions covered by those occurrences of word in r,
\* Occ(s, word, i, hi) telling whether word occurs at grapheme i
Covered(r, word, Occ(_, _, _, _)) ==
    LET occ == {i \in 0..Len(r.string) : Occ(r.string, word, i, r.len)}
        wlen == Len(Graphemes(word))
    IN  UNION {m..(m + wlen - 1) : m \in ScanStarts(occ, 0, wlen)}

\* the array after is the array before with Match at the positions of covered
Marked(before, after, covered) ==
    /\ Len(after) = Len(before)
    /\ \A i \in 1..Len(before) :
           after[i] = IF (i - 1) \in covered THEN "Match" ELSE before[i]

\* C2: highlight_match(Some(word)), word non-empty, sets Match at exactly the
\* positions covered by the non-overlapping occurrences of word, whatever
\* category was there, and leaves every other entry unchanged; with None or
\* an empty word the array is unchanged.  An occurrence is read either way,
\* as for find.  (Stated of the calls that do not run past the end of the
\* highlighting array.)
C2_HighlightMatch ==
    (op.name = "highlight_match" /\ ~panicked) =>
        /\ row.string = pre.string
        /\ row.len = pre.len
        /\ IF op.s \in {None, Some(<<>>)}
           THEN row.highlighting = pre.highlighting
           ELSE \/ Marked(pre.highlighting, row.highlighting,
                          Covered(pre, op.s[1], OccursAt))
                \/ Marked(pre.highlighting, row.highlighting,
                          Covered(pre, op.s[1], WholeOccursAt))

\* C3: after highlight the highlighting array has exactly as many entries as
\* the line has graphemes (Row::len).
C3_HighlightCoversLine ==
    op.name = "highlight" => Len(row.highlighting) = row.len

\* the offset of the closing quote of a character literal that starts at
\* char position i of chars: 2 for 'x', 3 for '\x'; 0 when no literal starts
ClosingOffset(chars, i) ==
    IF Get(chars, i) # Some(SingleQuote) \/ Get(chars, i + 1) = None THEN 0
    ELSE LET k == IF Get(chars, i + 1) = Some(Backslash) THEN 3 ELSE 2
         IN  IF Get(chars, i + k) = Some(SingleQuote) THEN k ELSE 0

\* C11, for a literal at the start of the line and no search word: with
\* character literals enabled every position of a valid literal, the opening
\* and the closing quote included, gets category Character.
C11_CharLiteral ==
    (/\ op.name = "highlight"
     /\ op.opts[1].characters
     /\ op.s = None
     /\ ClosingOffset(row.string, 0) > 0)
    => \A i \in 0..ClosingOffset(row.string, 0) :
           /\ i < Len(row.highlighting)
           /\ row.highlighting[i + 1] = "Character"

\* the start of the run of ASCII digits that holds char position i of chars
RECURSIVE DigitRunStart(_, _)
DigitRunStart(chars, i) ==
    IF i > 0 /\ IsAsciiDigit(chars[i]) THEN DigitRunStart(chars, i - 1) ELSE i

\* C12, for the lines of ASCII chars and no search word: with numbers enabled
\* a digit has category Number only when its digit run starts at the
\* beginning of the line, right after whitespace, or right after a char
\* already categorized Number.
C12_NumberRun ==
    (/\ op.name = "highlight"
     /\ op.opts[1].numbers
     /\ op.s = None
     /\ \A k \in 1..Len(row.string) : row.string[k] < 128)
    => \A i \in 0..(Len(row.string) - 1) :
           (/\ IsAsciiDigit(row.string[i + 1])
            /\ i < Len(row.highlighting)
            /\ row.highlighting[i + 1] = "Number")
           => LET start == DigitRunStart(row.string, i)
              IN  \/ start = 0
                  \/ IsAsciiWhitespace(row.string[start])
                  \/ row.highlighting[start] = "Number"

\* the text of r with the grapheme at index i replaced by the char c
ReplaceGrapheme(r, i, c) ==
    LET G == Graphemes(r.string)
    IN  Concat(SubSeq(G, 1, i)) \o <<c>> \o Concat(SubSeq(G, i + 2, Len(G)))

\* the cached len of r is the number of graphemes of its text
LenExact(r) == r.len = Len(Graphemes(r.string))

\* C4, for the indices below len and the Rows whose len is exact: delete(i)
\* followed by insert(i, c) leaves len as it was, and the text is the
\* original with grapheme i replaced by c.
C4_DeleteInsert ==
    [][(/\ op.name = "delete"
        /\ op'.name = "insert"
        /\ op'.at = op.at
        /\ LenExact(pre)
        /\ op.at < pre.len)
       => (/\ row'.len = pre.len
           /\ row'.string = ReplaceGrapheme(pre, op.at, op'.c))]_vars

\* C5: for at <= len, split(at) leaves graphemes [0, at) in the receiver and
\* returns graphemes [at, len), each with an exact len, and appending the
\* returned Row restores the original text and len.
C5_SplitAppend ==
    [][/\ (op'.name = "split" /\ op'.at <= row.len) =>
            LET G == Graphemes(row.string)
            IN  /\ row'.string = Concat(Take(G, op'.at))
                /\ other'.string = Concat(Skip(G, op'.at))
                /\ LenExact(row')
                /\ LenExact(other')
       /\ (op.name = "split" /\ op.at <= pre.len /\ op'.name = "append") =>
            /\ row'.string = pre.string
            /\ row'.len = pre.len]_vars

\* C5 for the Rows whose len is exact
C5_SplitAppendExact ==
    [][/\ (op'.name = "split" /\ op'.at <= row.len /\ LenExact(row)) =>
            LET G == Graphemes(row.string)
            IN  /\ row'.string = Concat(Take(G, op'.at))
                /\ other'.string = Concat(Skip(G, op'.at))
                /\ LenExact(row')
                /\ LenExact(other')
       /\ (/\ op.name = "split" /\ op.at <= pre.len /\ LenExact(pre)
           /\ op'.name = "append") =>
            /\ row'.string = pre.string
            /\ row'.len = pre.len]_vars

\* C13, for the Rows whose len is exact: insert(at, c) with at < len gives
\* the graphemes [0, at), then c, then the graphemes [at, len), with at >= len
\* it appends c; the cached len grows by exactly 1 and is the number of
\* graphemes of the new text.
C13_Insert ==
    (op.name = "insert" /\ LenExact(pre)) =>
        LET G == Graphemes(pre.string)
        IN  /\ row.string =
                   IF op.at < pre.len
                   THEN Concat(Take(G, op.at)) \o <<op.c>> \o Concat(Skip(G, op.at))
                   ELSE Append(pre.string, op.c)
            /\ row.len = pre.len + 1
            /\ LenExact(row)

\* Row::delete alone, applied again and again to a Row built by Row::from
NextDelete == \E at \in 0..(MaxRowChars + 1) : Delete(at)

SpecDelete == InitRow /\ [][NextDelete]_vars

\* C14: delete(at) with at >= len leaves text and len as they are; with
\* at < len it removes the grapheme at index at, keeps the others in order and
\* lowers the cached len by exactly 1.
C14_Delete ==
    op.name = "delete" =>
        LET G == Graphemes(pre.string)
        IN  IF op.at >= pre.len
            THEN row.string = pre.string /\ row.len = pre.len
            ELSE /\ row.string =
                        Concat(Take(G, op.at)) \o Concat(Skip(G, op.at + 1))
                 /\ row.len = pre.len - 1

\* what C16 asks of render for the graphemes G from index i up to stop: each
\* grapheme whole, a tab as two spaces, a style marker where the category
\* differs from that of the grapheme emitted before
RECURSIVE RenderContract(_, _, _, _, _)
RenderContract(G, hl, i, stop, current) ==
    IF i >= stop THEN <<>>
    ELSE (IF TypeAt(hl, i) # current THEN <<Fg(TypeAt(hl, i))>> ELSE <<>>)
         \o (IF G[i + 1] = <<Tab>> THEN <<32, 32>> ELSE G[i + 1])
         \o RenderContract(G, hl, i + 1, stop, TypeAt(hl, i))

\* C16: render(start, end) emits the graphemes with index in
\* [start, min(end, len)) in order, a style marker before a grapheme exactly
\* when its category differs from that of the grapheme emitted before
\* (initially None), each tab as two spaces, and the reset marker at the end.
C16_Render ==
    op.name = "render" =>
        LET G == Graphemes(row.string)
        IN  ret = Some(Append(RenderContract(G, row.highlighting, op.at,
                                             Min(op.end, Len(G)), "None"),
                              Fg("Reset")))

\* C18: every iteration of the scan loop of highlight moves the cursor idx
\* forward by at least 1 and leaves it at most one past the end of the line,
\* every iteration of the loop of highlight_match moves its start index
\* forward and leaves it within the line: both loops end after at most
\* as many iterations as the line has chars, plus one.
C18_HighlightTerminates ==
    [][/\ (op.name = "scan" /\ op'.name = "scan") =>
              /\ op'.at > op.at
              /\ op'.at <= Len(row.string) + 1
       /\ (op.name = "match" /\ op'.name = "match") =>
              /\ op'.at > op.at
              /\ op'.at <= Len(row.string)]_vars

\* highlight has returned after a scan that met a recognized token and a
\* search that marked a match
C18_Witness ==
    /\ op.name = "highlight"
    /\ ~panicked
    /\ op.s = Some(<<97>>)
    /\ \E i, j \in 1..Len(row.highlighting) :
           /\ row.highlighting[i] = "Match"
           /\ row.highlighting[j] \notin {"None", "Match"}

----------------------------------------------------------------------------
(* Document: its rows, at the interface Editor uses                        *)

\* Document::row(index)
DocRow(doc, index) == IF index < Len(doc) THEN Some(doc[index + 1]) ELSE None

\* Document::insert(at, c): a line break splits the row at at.x and puts the
\* new row right after it, any other char goes to Row::insert; past the last
\* row a new row is pushed
DocInsert(doc, at, c) ==
    IF at.y > Len(doc) THEN doc
    ELSE IF c = Newline
    THEN IF at.y = Len(doc) THEN Append(doc, RowDefault)
         ELSE LET sp == split(doc[at.y + 1], at.x)
              IN  SubSeq(doc, 1, at.y) \o <<sp.self, sp.new>>
                  \o SubSeq(doc, at.y + 2, Len(doc))
    ELSE IF at.y = Len(doc) THEN Append(doc, insert(RowDefault, 0, c))
    ELSE [doc EXCEPT ![at.y + 1] = insert(@, at.x, c)]

\* Document::delete(at): at the end of a row that has a successor the
\* successor is appended to it, otherwise Row::delete; nothing past the
\* last row
DocDelete(doc, at) ==
    IF at.y >= Len(doc) THEN doc
    ELSE IF at.x = doc[at.y + 1].len /\ at.y + 1 < Len(doc)
    THEN SubSeq(doc, 1, at.y) \o <<append(doc[at.y + 1], doc[at.y + 2])>>
         \o SubSeq(doc, at.y + 3, Len(doc))
    ELSE [doc EXCEPT ![at.y + 1] = delete(@, at.x)]

\* Document::find(query): the first occurrence, rows scanned from the top
DocFind(doc, query) ==
    LET ys == {y \in 0..(Len(doc) - 1) : find(doc[y + 1], query, 0, "Forward") # None}
    IN  IF ys = {} THEN None
        ELSE Some(Position(find(doc[SetMin(ys) + 1], query, 0, "Forward")[1],
                           SetMin(ys)))

----------------------------------------------------------------------------
(* Editor (src/src/editor.rs)                                              *)

\* the length of the row at line y, 0 when there is none (editor.rs:248, 285)
RowLenAt(doc, y) == IF DocRow(doc, y) # None THEN DocRow(doc, y)[1].len ELSE 0

\* KeyRight staying at the end of a line instead of wrapping
KeyRightNoWrap(x, y, width, height) ==
    IF x < width THEN Position(x + 1, y) ELSE Position(x, y)

\* move_cursor, Key::Right: x and y before the final clamp of x
KeyRight(x, y, width, height) ==
    IF x < width THEN Position(x + 1, y)
    ELSE IF y < height THEN Position(0, y + 1)
    ELSE Position(x, y)

\* KeyPageDown without the clamp to the document
KeyPageDownUnclamped(y, terminal_height, height) == y + terminal_height

\* move_cursor, Key::PageDown: the new y
KeyPageDown(y, terminal_height, height) ==
    IF y + terminal_height < height THEN y + terminal_height ELSE height

\* Editor::move_cursor(key): the new cursor_position
move_cursor(cursor, doc, k, terminal_height) ==
    LET x == cursor.x
        y == cursor.y
        height == Len(doc)
        width == RowLenAt(doc, y)
        moved ==
            CASE k = "Up" -> Position(x, SatSub(y, 1))
              [] k = "Down" -> Position(x, IF y < height THEN y + 1 ELSE y)
              [] k = "Left" ->
                    IF x > 0 THEN Position(x - 1, y)
                    ELSE IF y > 0 THEN Position(RowLenAt(doc, y - 1), y - 1)
                    ELSE Position(x, y)
              [] k = "Right" -> KeyRight(x, y, width, height)
              [] k = "PageUp" ->
                    Position(x, IF y > terminal_height
                                THEN SatSub(y, terminal_height) ELSE 0)
              [] k = "PageDown" ->
                    Position(x, KeyPageDown(y, terminal_height, height))
              [] k = "Home" -> Position(0, y)
              [] k = "End" -> Position(width, y)
              [] OTHER -> Position(x, y)
        new_width == RowLenAt(doc, moved.y)
    IN  Position(IF moved.x > new_width THEN new_width ELSE moved.x, moved.y)

\* ScrollAxis without the saturating_add(1) at the far edge
ScrollAxisShort(p, o, extent) ==
    IF p < o THEN p
    ELSE IF p >= o + extent THEN SatSub(p, extent)
    ELSE o

\* ScrollAxis scrolling one step late: > for >= at the far edge
ScrollAxisLate(p, o, extent) ==
    IF p < o THEN p
    ELSE IF p > o + extent THEN SatSub(p, extent) + 1
    ELSE o

\* one axis of Editor::scroll: the new offset for cursor coordinate p,
\* offset o and viewport extent extent
ScrollAxis(p, o, extent) ==
    IF p < o THEN p
    ELSE IF p >= o + extent THEN SatSub(p, extent) + 1
    ELSE o

\* Editor::scroll: the new offset
scroll(cursor, off, sz) ==
    Position(ScrollAxis(cursor.x, off.x, sz.width),
             ScrollAxis(cursor.y, off.y, sz.height))

\* the callback of the search prompt (editor.rs:89-94), run with the text
\* typed so far: the cursor and offset it leaves
SearchCallback(cursor, off, doc, sz, query) ==
    LET pos == DocFind(doc, query)
    IN  IF pos = None THEN [cursor |-> cursor, offset |-> off]
        ELSE [cursor |-> pos[1], offset |-> scroll(pos[1], off, sz)]

\* Finish without the reset of the quit counter and of the message
FinishKeepCount(cursor, off, thresh, message) ==
    /\ cursor_position' = cursor
    /\ offset' = scroll(cursor, off, size)
    /\ quit_thresh' = thresh
    /\ status_message' = message

\* the end of Editor::process_keypress (editor.rs:124-129)
Finish(cursor, off, thresh, message) ==
    /\ cursor_position' = cursor
    /\ offset' = scroll(cursor, off, size)
    /\ quit_thresh' = IF thresh < QUIT_THRESH THEN QUIT_THRESH ELSE thresh
    /\ status_message' =
           IF thresh < QUIT_THRESH THEN Message("", <<>>) ELSE message

\* Editor::run is about to read a key in process_keypress (editor.rs:46-49,
\* 77): the editor has not quit, the process is alive and no prompt is open
ReadsKey == ~should_quit /\ ~panicked /\ prompting = None

\* Editor::run: the refresh_screen that opens an iteration returns an error,
\* also in the iteration that follows the quitting Ctrl-q, where it comes
\* before the test of should_quit (editor.rs:47-48), or the read_key of
\* process_keypress does (editor.rs:49, 77); die panics (editor.rs:328-331)
Die ==
    /\ ~panicked
    /\ prompting = None
    /\ panicked' = TRUE
    /\ UNCHANGED <<row, other, ret, op, pre>>
    /\ UNCHANGED editorVars

\* Editor::prompt up to its first read_key (editor.rs:152-156)
PromptBegin(prompt) ==
    /\ prompting' = Some([prompt |-> prompt, result |-> <<>>])
    /\ status_message' = Message(prompt, <<>>)
    /\ UNCHANGED <<cursor_position, offset, quit_thresh>>

\* process_keypress, Key::Ctrl('q')
CtrlQ ==
    /\ ReadsKey
    /\ IF quit_thresh > 0 /\ dirty
       THEN /\ status_message' =
                   Message("[WARN]: File has unsaved changes", <<>>)
            /\ quit_thresh' = quit_thresh - 1
            /\ UNCHANGED <<should_quit, cursor_position, offset>>
       ELSE /\ should_quit' = TRUE
            /\ Finish(cursor_position, offset, quit_thresh, status_message)
    /\ UNCHANGED <<size, rows, dirty, file_name, prompting>>
    /\ UNCHANGED rowVars

\* Editor::save from Document::save on (editor.rs:142-146) and the end of
\* process_keypress; ok is whether Document::save succeeds
SaveDocument(ok) ==
    /\ dirty' = IF ok THEN FALSE ELSE dirty
    /\ Finish(cursor_position, offset, quit_thresh,
              IF ok THEN Message("File saved successfully.", <<>>)
              ELSE Message("File saved successfully.", <<>>))

\* process_keypress, Key::Ctrl('s'): Editor::save, which opens the "Save as"
\* prompt when no file name is set
CtrlS(ok) ==
    /\ ReadsKey
    /\ IF file_name = None
       THEN /\ PromptBegin("Save as: ")
            /\ UNCHANGED <<file_name, dirty>>
       ELSE /\ SaveDocument(ok)
            /\ UNCHANGED <<file_name, prompting>>
    /\ UNCHANGED <<should_quit, size, rows>>
    /\ UNCHANGED rowVars

\* process_keypress, Key::Ctrl('f'): opens the "Search" prompt
CtrlF ==
    /\ ReadsKey
    /\ PromptBegin("Search: ")
    /\ UNCHANGED <<should_quit, size, rows, dirty, file_name>>
    /\ UNCHANGED rowVars

\* Editor::prompt is waiting in read_key (editor.rs:156)
InPrompt == ~should_quit /\ ~panicked /\ prompting # None

\* Editor::prompt after a key that does not end it (editor.rs:164, 154-156):
\* the callback runs on result, the message shows it, the next key is awaited
PromptLoop(result) ==
    LET prompt == prompting[1].prompt
        cb == IF prompt = "Search: "
              THEN SearchCallback(cursor_position, offset, rows, size, result)
              ELSE [cursor |-> cursor_position, offset |-> offset]
    IN  /\ cursor_position' = cb.cursor
        /\ offset' = cb.offset
        /\ prompting' = Some([prompt |-> prompt, result |-> result])
        /\ status_message' = Message(prompt, result)
        /\ UNCHANGED <<should_quit, size, rows, dirty, file_name, quit_thresh>>
        /\ UNCHANGED rowVars

\* Editor::prompt has returned to its caller with returned, None or
\* Some(result), and with message as the status message: the rest of the
\* Ctrl-f arm (editor.rs:94-100) or of Editor::save (editor.rs:135-146), and
\* the end of process_keypress
PromptReturned(returned, message, ok) ==
    /\ prompting' = None
    /\ IF prompting[1].prompt = "Search: "
       THEN LET pos == IF returned = None THEN None
                       ELSE DocFind(rows, returned[1])
            IN  /\ Finish(IF pos # None THEN pos[1] ELSE cursor_position,
                          offset, quit_thresh,
                          IF returned # None /\ pos = None
                          THEN Message("Not found: ", returned[1])
                          ELSE message)
                /\ UNCHANGED <<file_name, dirty>>
       ELSE IF returned = None
            THEN /\ Finish(cursor_position, offset, quit_thresh,
                           Message("Save aborted.", <<>>))
                 /\ UNCHANGED <<file_name, dirty>>
            ELSE /\ file_name' = returned
                 /\ SaveDocument(ok)
    /\ UNCHANGED <<should_quit, size, rows>>
    /\ UNCHANGED rowVars

\* Editor::prompt, Key::Char(c) other than Enter: a control char is not
\* pushed (editor.rs:160)
PromptChar(c) ==
    /\ InPrompt
    /\ c # Newline
    /\ PromptLoop(IF IsControl(c) THEN prompting[1].result
                  ELSE Append(prompting[1].result, c))

\* Editor::prompt, Key::Backspace: String::truncate to one byte less
\* (editor.rs:158), which panics inside a char of more than one byte
PromptBackspace ==
    /\ InPrompt
    /\ LET result == prompting[1].result
       IN  IF result # <<>> /\ Utf8Len(result[Len(result)]) > 1
           THEN /\ panicked' = TRUE
                /\ UNCHANGED <<row, other, ret, op, pre>>
                /\ UNCHANGED editorVars
           ELSE PromptLoop(Take(result, SatSub(Len(result), 1)))

\* Editor::prompt, any other key (editor.rs:162)
PromptOther ==
    /\ InPrompt
    /\ PromptLoop(prompting[1].result)

\* Editor::prompt, Key::Char('\n') (editor.rs:159, 166-168)
PromptEnter(ok) ==
    /\ InPrompt
    /\ PromptReturned(IF prompting[1].result = <<>> THEN None
                      ELSE Some(prompting[1].result),
                      Message("", <<>>), ok)

\* Editor::prompt, Key::Esc (editor.rs:161, 166-167)
PromptEsc ==
    /\ InPrompt
    /\ PromptReturned(None, Message("", <<>>), FALSE)

\* Editor::prompt, refresh_screen or read_key returns an error (editor.rs:
\* 155-156): the caller's unwrap_or(None) takes it for no result, and the
\* message of the prompt is left in place
PromptError ==
    /\ InPrompt
    /\ PromptReturned(None, status_message, FALSE)

\* the number of chars of the document
RECURSIVE DocChars(_)
DocChars(doc) ==
    IF doc = <<>> THEN 0 ELSE Len(Head(doc).string) + DocChars(Tail(doc))

\* process_keypress, Key::Delete
KeyDelete ==
    /\ ReadsKey
    /\ rows' = DocDelete(rows, cursor_position)
    /\ dirty' = (dirty \/ cursor_position.y < Len(rows))
    /\ Finish(cursor_position, offset, quit_thresh, status_message)
    /\ UNCHANGED <<should_quit, size, file_name, prompting>>
    /\ UNCHANGED rowVars

\* process_keypress, Key::Backspace
KeyBackspace ==
    /\ ReadsKey
    /\ IF cursor_position.x > 0 \/ cursor_position.y > 0
       THEN LET moved == move_cursor(cursor_position, rows, "Left", size.height)
            IN  /\ rows' = DocDelete(rows, moved)
                /\ dirty' = (dirty \/ moved.y < Len(rows))
                /\ Finish(moved, offset, quit_thresh, status_message)
       ELSE /\ UNCHANGED <<rows, dirty>>
            /\ Finish(cursor_position, offset, quit_thresh, status_message)
    /\ UNCHANGED <<should_quit, size, file_name, prompting>>
    /\ UNCHANGED rowVars

\* process_keypress, Key::Char(c)
KeyChar(c) ==
    /\ ReadsKey
    /\ rows' = DocInsert(rows, cursor_position, c)
    /\ dirty' = TRUE
    /\ Finish(move_cursor(cursor_position, rows', "Right", size.height),
              offset, quit_thresh, status_message)
    /\ UNCHANGED <<should_quit, size, file_name, prompting>>
    /\ UNCHANGED rowVars

\* process_keypress, the cursor keys
KeyMove(k) ==
    /\ ReadsKey
    /\ Finish(move_cursor(cursor_position, rows, k, size.height),
              offset, quit_thresh, status_message)
    /\ UNCHANGED <<should_quit, size, rows, dirty, file_name, prompting>>
    /\ UNCHANGED rowVars

\* process_keypress, any other key
KeyOther ==
    /\ ReadsKey
    /\ Finish(cursor_position, offset, quit_thresh, status_message)
    /\ UNCHANGED <<should_quit, size, rows, dirty, file_name, prompting>>
    /\ UNCHANGED rowVars

MoveKeys == {"Up", "Down", "Left", "Right", "PageUp", "PageDown", "End", "Home"}

\* typing c keeps the document within max_chars chars and max_rows rows
Room(c, max_chars, max_rows) ==
    LET doc == DocInsert(rows, cursor_position, c)
    IN  DocChars(doc) <= max_chars /\ Len(doc) <= max_rows

\* the chars typed: 'a', the combining acute accent U+0301, Enter
TypedChars == {97, 769, Newline}

\* the terminal sizes
TerminalSizes == {[width |-> 1, height |-> 1], [width |-> 2, height |-> 2]}

\* the file named on the command line: "f"
FileArg == <<102>>

\* Editor::default() (editor.rs:53-74): no file is named, or the file named
\* is opened (it is one of files or empty), or it cannot be opened and the
\* document is the default one
InitEditor(files) ==
    /\ should_quit = FALSE
    /\ size \in TerminalSizes
    /\ cursor_position = Position(0, 0)
    /\ offset = Position(0, 0)
    /\ dirty = FALSE
    /\ \/ /\ rows = <<>>
          /\ file_name = None
          /\ status_message = Message(HelpText, <<>>)
       \/ /\ rows \in files \cup {<<>>}
          /\ file_name = Some(FileArg)
          /\ status_message = Message(HelpText, <<>>)
       \/ /\ rows = <<>>
          /\ file_name = None
          /\ status_message = Message("Err: Couldn't open file: ", FileArg)
    /\ quit_thresh = QUIT_THRESH
    /\ prompting = None
    /\ RowIdle

----------------------------------------------------------------------------
(* The editor under every key, on small documents                          *)

MaxDocChars == 2
MaxDocRows == 2

\* the longest text, in chars, typed into a prompt
MaxPromptChars == 1

\* the chars typed here: 'a' and Enter (the file opened holds U+0301)
DocTypedChars == {97, Newline}

\* the chars typed into a prompt: tab, 'a' and U+0301
PromptChars == {Tab, 97, 769}

Init == InitEditor({<<RowFrom(<<97>>), RowFrom(<<769>>)>>})

Next ==
    \/ CtrlQ
    \/ \E ok \in BOOLEAN : CtrlS(ok)
    \/ CtrlF
    \/ KeyDelete
    \/ KeyBackspace
    \/ \E c \in DocTypedChars : Room(c, MaxDocChars, MaxDocRows) /\ KeyChar(c)
    \/ \E k \in MoveKeys : KeyMove(k)
    \/ KeyOther
    \/ \E c \in PromptChars :
           /\ prompting # None
           /\ IsControl(c) \/ Len(prompting[1].result) < MaxPromptChars
           /\ PromptChar(c)
    \/ PromptBackspace
    \/ PromptOther
    \/ \E ok \in BOOLEAN : PromptEnter(ok)
    \/ PromptEsc
    \/ PromptError
    \/ Die

Spec == Init /\ [][Next]_vars

----------------------------------------------------------------------------
(* The editor under the cursor keys and the edits, on larger documents     *)

MaxKeysChars == 3
MaxKeysRows == 3

InitKeys ==
    InitEditor({<<RowFrom(<<97>>), RowFrom(<<>>), RowFrom(<<97, 769>>)>>})

NextKeys ==
    \/ KeyDelete
    \/ KeyBackspace
    \/ \E c \in TypedChars : Room(c, MaxKeysChars, MaxKeysRows) /\ KeyChar(c)
    \/ \E k \in MoveKeys : KeyMove(k)

SpecKeys == InitKeys /\ [][NextKeys]_vars

----------------------------------------------------------------------------
(* Properties of the editor                                                *)

\* C7: with a viewport of width >= 1 and height >= 1, after every completed
\* process_keypress (the Ctrl-q early return included) the cursor is inside
\* the viewport: offset.y <= cursor.y < offset.y + height and
\* offset.x <= cursor.x < offset.x + width.
C7_CursorInViewport ==
    (size.width >= 1 /\ size.height >= 1) =>
        /\ offset.y <= cursor_position.y
        /\ cursor_position.y < offset.y + size.height
        /\ offset.x <= cursor_position.x
        /\ cursor_position.x < offset.x + size.width

\* the viewport has been scrolled on both axes and the document edited
C7_Witness ==
    /\ size.width >= 1 /\ size.height >= 1
    /\ offset.x > 0 /\ offset.y > 0
    /\ dirty

\* C8: in every state reached by arrows, Home/End, PageUp/PageDown, char and
\* newline insertion, Delete and Backspace the cursor is a valid logical
\* position: cursor.y <= document length and cursor.x <= the length of the
\* line at cursor.y (0 when cursor.y has no line).
C8_CursorValid ==
    /\ 0 <= cursor_position.y /\ cursor_position.y <= Len(rows)
    /\ 0 <= cursor_position.x
    /\ cursor_position.x <= RowLenAt(rows, cursor_position.y)

\* the warning a refused Ctrl-q shows
QuitWarning == Message("[WARN]: File has unsaved changes", <<>>)

\* C15: a Ctrl-q read by process_keypress with unsaved changes and the
\* counter above 0 lowers the counter by 1, shows the warning and does not
\* quit; every other completed process_keypress resets the counter to
\* QUIT_THRESH and the steps inside a prompt leave it and should_quit as they
\* are; so with unsaved changes should_quit is set only by a Ctrl-q that
\* finds the counter at 0, the third in a row, and with a clean document a
\* single Ctrl-q sets should_quit.
C15_QuitConfirm ==
    [][/\ (CtrlQ /\ dirty /\ quit_thresh > 0) =>
              /\ quit_thresh' = quit_thresh - 1
              /\ status_message' = QuitWarning
              /\ ~should_quit'
       /\ (/\ prompting' = None /\ ~panicked'
           /\ ~(CtrlQ /\ dirty /\ quit_thresh > 0)) =>
              quit_thresh' = QUIT_THRESH
       /\ (prompting' # None \/ panicked') =>
              /\ quit_thresh' = quit_thresh
              /\ should_quit' = should_quit
       /\ (quit_thresh' < quit_thresh) =>
              /\ CtrlQ
              /\ quit_thresh' = quit_thresh - 1
              /\ dirty' /\ status_message' = QuitWarning
       /\ (should_quit' /\ ~should_quit) =>
              /\ CtrlQ
              /\ dirty => quit_thresh = 0
       /\ (CtrlQ /\ ~dirty) => should_quit']_vars

\* the editor has quit with unsaved changes
C15_Witness == should_quit /\ dirty /\ quit_thresh = QUIT_THRESH

\* the "Save as" prompt is waiting for a key
InSavePrompt == prompting # None /\ prompting[1].prompt = "Save as: "

\* C17: a Ctrl-s whose Document::save fails (the unsaved changes stay), with
\* the file name set or just entered in the prompt, does not quit and leaves
\* a status message other than the one of a successful save; a "Save as"
\* prompt that is cancelled leaves the file name unset, the document as it
\* is and the message "Save aborted.".
C17_SaveError ==
    [][/\ (/\ dirty
           /\ \/ CtrlS(FALSE) /\ file_name # None
              \/ /\ PromptEnter(FALSE)
                 /\ InSavePrompt
                 /\ prompting[1].result # <<>>)
          => /\ ~should_quit'
             /\ status_message' # Message("File saved successfully.", <<>>)
       /\ (/\ InSavePrompt
           /\ quit_thresh = QUIT_THRESH
           /\ \/ PromptEsc
              \/ PromptError
              \/ prompting[1].result = <<>> /\ \E ok \in BOOLEAN : PromptEnter(ok))
          => /\ file_name' = None
             /\ dirty' = dirty
             /\ status_message' = Message("Save aborted.", <<>>)]_vars

----------------------------------------------------------------------------
(* Editor::scroll applied to a cursor, an offset and a terminal size       *)

\* the largest column and line of the cursor and of the offset
MaxScrollX == 2
MaxScrollY == 26

\* the terminal sizes scrolled in
ScrollSizes == {[width |-> 0, height |-> 0], [width |-> 1, height |-> 1],
                [width |-> 2, height |-> 10]}

InitScroll ==
    /\ should_quit = FALSE
    /\ size \in ScrollSizes
    /\ cursor_position \in [x : 0..MaxScrollX, y : 0..MaxScrollY]
    /\ offset \in [x : 0..MaxScrollX, y : 0..MaxScrollY]
    /\ rows = <<>>
    /\ dirty = FALSE
    /\ file_name = None
    /\ status_message = Message(HelpText, <<>>)
    /\ quit_thresh = QUIT_THRESH
    /\ prompting = None
    /\ row = RowDefault
    /\ other = RowDefault
    /\ ret = None
    /\ op = NoOp
    /\ pre = offset
    /\ panicked = FALSE

\* Editor::scroll; pre keeps the offset it found
Scroll ==
    /\ offset' = scroll(cursor_position, offset, size)
    /\ pre' = offset
    /\ op' = [NoOp EXCEPT !.name = "scroll"]
    /\ UNCHANGED <<should_quit, size, cursor_position, rows, dirty, file_name,
                   status_message, quit_thresh, prompting, row, other, ret,
                   panicked>>

SpecScroll == InitScroll /\ [][Scroll]_vars

\* the rule of C6 for one axis: cursor coordinate p, offset o, extent
ScrollRule(p, o, extent) ==
    IF p < o THEN p
    ELSE IF p >= o + extent THEN p - extent + 1
    ELSE o

\* C6: scroll sets offset.y to cursor.y when cursor.y < offset.y, to
\* cursor.y - height + 1 when cursor.y >= offset.y + height, and leaves it
\* otherwise, and likewise offset.x with cursor.x and width; with height 10,
\* offset.y 0 and the cursor on line 25 the new offset.y is 16; an offset is
\* not changed while the cursor is inside the viewport on that axis.
C6_ScrollRule ==
    op.name = "scroll" =>
        /\ offset.y = ScrollRule(cursor_position.y, pre.y, size.height)
        /\ offset.x = ScrollRule(cursor_position.x, pre.x, size.width)
        /\ (size.height = 10 /\ pre.y = 0 /\ cursor_position.y = 25)
               => offset.y = 16
        /\ (pre.y <= cursor_position.y
               /\ cursor_position.y < pre.y + size.height) => offset.y = pre.y
        /\ (pre.x <= cursor_position.x
               /\ cursor_position.x < pre.x + size.width) => offset.x = pre.x

\* scroll has run with height 10, offset.y 0 and the cursor on line 25, and
\* with the cursor left of the viewport
C6_Witness ==
    /\ op.name = "scroll"
    /\ size.height = 10 /\ pre.y = 0 /\ cursor_position.y = 25
    /\ offset.y = 16
    /\ cursor_position.x < pre.x /\ offset.x = cursor_position.x

----------------------------------------------------------------------------
(* Editor::move_cursor applied to a document, a cursor and a key           *)

\* the most rows of the document and the largest column of the cursor
MaxCursorRows == 3
MaxCursorX == 4

\* the lines of the document: "", "a" and "aa"
CursorLines == {RowFrom(<<>>), RowFrom(<<97>>), RowFrom(<<97, 97>>)}

\* the cursor is on a line of the document, at or past any column of it (a
\* Row::delete that lowers len leaves the cursor past the end of the line),
\* or at column 0 below the last line
InitCursor ==
    /\ should_quit = FALSE
    /\ size \in TerminalSizes
    /\ rows \in SeqsUpTo(CursorLines, MaxCursorRows)
    /\ cursor_position \in
           [x : 0..MaxCursorX, y : 0..(Len(rows) - 1)]
               \cup {Position(0, Len(rows))}
    /\ offset = Position(0, 0)
    /\ dirty = FALSE
    /\ file_name = None
    /\ status_message = Message(HelpText, <<>>)
    /\ quit_thresh = QUIT_THRESH
    /\ prompting = None
    /\ row = RowDefault
    /\ other = RowDefault
    /\ ret = None
    /\ op = NoOp
    /\ pre = cursor_position
    /\ panicked = FALSE

\* Editor::move_cursor(k); pre keeps the cursor it found
MoveCursor(k) ==
    /\ cursor_position' = move_cursor(cursor_position, rows, k, size.height)
    /\ pre' = cursor_position
    /\ op' = [NoOp EXCEPT !.name = k]
    /\ UNCHANGED <<should_quit, size, offset, rows, dirty, file_name,
                   status_message, quit_thresh, prompting, row, other, ret,
                   panicked>>

NextCursor == \E k \in MoveKeys : MoveCursor(k)

SpecCursor == InitCursor /\ [][NextCursor]_vars

\* C9 as stated: after PageDown cursor.y = min(y + height, index of the last
\* line), after PageUp cursor.y = max(y - height, 0), and a page move never
\* takes the cursor line past the index of the last line.
C9_PageClampLastLine ==
    (Len(rows) > 0 /\ pre.y <= Len(rows) - 1) =>
        /\ op.name = "PageDown" =>
               cursor_position.y = Min(pre.y + size.height, Len(rows) - 1)
        /\ op.name = "PageUp" =>
               cursor_position.y = Max(pre.y - size.height, 0)
        /\ op.name \in {"PageDown", "PageUp"} =>
               cursor_position.y <= Len(rows) - 1

\* C9 amended: after PageDown cursor.y = min(y + height, number of lines),
\* after PageUp cursor.y = max(y - height, 0), and a page move never takes
\* the cursor line past the number of lines, one past the last line's index.
C9_PageClampDocument ==
    /\ op.name = "PageDown" =>
           cursor_position.y = Min(pre.y + size.height, Len(rows))
    /\ op.name = "PageUp" =>
           cursor_position.y = Max(pre.y - size.height, 0)
    /\ op.name \in {"PageDown", "PageUp"} => cursor_position.y <= Len(rows)

\* PageDown from a line of a document longer than the viewport has been
\* clamped to the number of lines
C9_Witness ==
    /\ op.name = "PageDown"
    /\ Len(rows) > size.height
    /\ pre.y > 0
    /\ pre.y + size.height > Len(rows)
    /\ cursor_position.y = Len(rows)

\* C10 as stated, for a cursor on the line (x <= its length): Right at the
\* end of a line moves to column 0 of the next line when one exists and else
\* stays; Left at column 0 moves to the end of the previous line when y > 0
\* and else stays; in all other cases x changes by exactly 1 and y stays.
C10_WrapNextLine ==
    (pre.x <= RowLenAt(rows, pre.y)) =>
        /\ op.name = "Right" =>
               cursor_position =
                   IF pre.x = RowLenAt(rows, pre.y)
                   THEN IF pre.y + 1 < Len(rows) THEN Position(0, pre.y + 1)
                        ELSE pre
                   ELSE Position(pre.x + 1, pre.y)
        /\ op.name = "Left" =>
               cursor_position =
                   IF pre.x = 0
                   THEN IF pre.y > 0
                        THEN Position(RowLenAt(rows, pre.y - 1), pre.y - 1)
                        ELSE pre
                   ELSE Position(pre.x - 1, pre.y)

\* C10 amended: Right at or past the end of a line moves to column 0 of line
\* y + 1 whenever y is below the number of lines, so also from the last line
\* to the empty line below it, and else stays; Left at column 0 moves to the
\* end of the previous line when y > 0 and else stays; Right before the end
\* of the line adds 1 to x, Left past column 0 moves to column x - 1 or, if
\* that is smaller, the line's length, and y stays.
C10_WrapBelowDocument ==
    /\ op.name = "Right" =>
           cursor_position =
               IF pre.x < RowLenAt(rows, pre.y)
               THEN Position(pre.x + 1, pre.y)
               ELSE IF pre.y < Len(rows) THEN Position(0, pre.y + 1)
               ELSE pre
    /\ op.name = "Left" =>
           cursor_position =
               IF pre.x > 0
               THEN Position(Min(pre.x - 1, RowLenAt(rows, pre.y)), pre.y)
               ELSE IF pre.y > 0
               THEN Position(RowLenAt(rows, pre.y - 1), pre.y - 1)
               ELSE pre

\* Right at the end of the last line has moved below the document
C10_Witness ==
    /\ op.name = "Right"
    /\ Len(rows) > 1
    /\ pre.y = Len(rows) - 1
    /\ pre.x = RowLenAt(rows, pre.y) /\ pre.x > 0
    /\ cursor_position = Position(0, Len(rows))

====
